---- MODULE Spec2Model ----
(***************************************************************************)
(* A model of src/query.ts of csvql: executeQuery walks the rows of a CSV  *)
(* file, filters them with the operation built from the WHERE tree, keeps  *)
(* the rows of the requested page, projects them on the selected columns   *)
(* and returns {source, total, page, pages, header, result}.               *)
(*                                                                         *)
(* JavaScript strings are sequences of one-character strings, so that      *)
(* startsWith, replace, parseInt, the regular expression of LIKE and the   *)
(* version grammar of semver are computed and not assumed.                 *)
(***************************************************************************)
EXTENDS Integers, Sequences, FiniteSets, TLC

VARIABLES
    query,              \* the parsed query: type, columns, where, offset, limit
    file,               \* the rows readCSV yields for the table, header first
    pc,                 \* "start", "reading", "done", "thrown", "exited"; or the step of a probe
    operation,          \* the operation, left and right that line 39-49 chose
    line, total, result, shouldSetupHeader,
    header, originalHeader, headerIndex, headerName,
    outcome,            \* the returned envelope, the thrown error or the exit
    probe,              \* inputs of a direct call of one operation (row, sub-nodes)
    ret                 \* what that call returned

vars == <<query, file, pc, operation, line, total, result, shouldSetupHeader,
          header, originalHeader, headerIndex, headerName, outcome, probe, ret>>

----------------------------------------------------------------------------
(* Bounds of the model *)

MaxRows == 4        \* data rows of a file
MaxLimit == 2       \* LIMIT values 0..MaxLimit
MaxOffset == 1      \* OFFSET values 0..MaxOffset
MaxPattern == 3     \* characters of a LIKE pattern
MaxField == 2       \* characters of a field matched against a LIKE pattern

----------------------------------------------------------------------------
(* JavaScript values *)

\* data[-1], the value of a column that findIndex did not find
UNDEFINED == <<"undefined">>

\* String(v) of a field: the text "undefined" for an undefined one
ToStringJS(v) ==
    IF v = UNDEFINED THEN <<"u", "n", "d", "e", "f", "i", "n", "e", "d">> ELSE v

Digits == {"0", "1", "2", "3", "4", "5", "6", "7", "8", "9"}

DigitVal(c) ==
    CASE c = "0" -> 0 [] c = "1" -> 1 [] c = "2" -> 2 [] c = "3" -> 3 [] c = "4" -> 4
      [] c = "5" -> 5 [] c = "6" -> 6 [] c = "7" -> 7 [] c = "8" -> 8 [] c = "9" -> 9

DigitChar(d) ==
    CASE d = 0 -> "0" [] d = 1 -> "1" [] d = 2 -> "2" [] d = 3 -> "3" [] d = 4 -> "4"
      [] d = 5 -> "5" [] d = 6 -> "6" [] d = 7 -> "7" [] d = 8 -> "8" [] d = 9 -> "9"

\* the value of a string of decimal digits
RECURSIVE NumOf(_)
NumOf(s) == IF s = <<>> THEN 0 ELSE 10 * NumOf(SubSeq(s, 1, Len(s) - 1)) + DigitVal(s[Len(s)])

\* String(n) of a non-negative integer
RECURSIVE NumberToString(_)
NumberToString(n) ==
    IF n < 10 THEN <<DigitChar(n)>> ELSE NumberToString(n \div 10) \o <<DigitChar(n % 10)>>

\* the longest prefix of s made of decimal digits
RECURSIVE DigitPrefix(_)
DigitPrefix(s) ==
    IF s = <<>> \/ s[1] \notin Digits THEN <<>> ELSE <<s[1]>> \o DigitPrefix(Tail(s))

\* parseInt(v, 10) of a field without sign or white space: NaN when no digit leads
ParseInt(v) ==
    IF v = UNDEFINED \/ DigitPrefix(v) = <<>>
    THEN [nan |-> TRUE, n |-> 0]
    ELSE [nan |-> FALSE, n |-> NumOf(DigitPrefix(v))]

StartsWith(f, s) == Len(s) <= Len(f) /\ SubSeq(f, 1, Len(s)) = s

EndsWith(f, s) == Len(s) <= Len(f) /\ SubSeq(f, Len(f) - Len(s) + 1, Len(f)) = s

Contains(f, s) == \E i \in 0..(Len(f) - Len(s)) : SubSeq(f, i + 1, i + Len(s)) = s

\* header.findIndex((value) => value === columnName), shifted to 1-based: 0 is JS's -1
FindIndex(hdr, columnName) ==
    IF \E i \in 1..Len(hdr) : hdr[i] = columnName
    THEN CHOOSE i \in 1..Len(hdr) :
            hdr[i] = columnName /\ \A j \in 1..(i - 1) : hdr[j] # columnName
    ELSE 0

\* data[column]
FieldAt(data, column) == IF column \in 1..Len(data) THEN data[column] ELSE UNDEFINED

----------------------------------------------------------------------------
(* What an operation does: returns the row, returns undefined, throws, or   *)
(* ends the process.                                                       *)

Row(data) == [kind |-> "row", row |-> data]

Absent == [kind |-> "undefined"]

\* line 186: throw new Error(`Invalid version or range: ${value}`)
ThrowInvalidVersion(value) ==
    [kind |-> "throw", error |-> "Invalid version or range", value |-> value]

\* line 93: throw new Error(`The number of header columns ... (line: ${line})`)
ThrowRowShape(lineNumber) ==
    [kind |-> "throw", error |-> "The number of header columns are different to row columns",
     line |-> lineNumber]

Exit(operator) == [kind |-> "exit", error |-> "Operation not supported", operator |-> operator]

----------------------------------------------------------------------------
(* The fragment of the semver package the operands of the model exercise:  *)
(* versions MAJOR.MINOR.PATCH of numeric identifiers, and the ranges       *)
(* ">=V", "V", "*", "x", "" and a bare major number.                        *)

RECURSIVE SplitDots(_)
SplitDots(s) ==
    IF \A i \in 1..Len(s) : s[i] # "."
    THEN <<s>>
    ELSE LET i == CHOOSE k \in 1..Len(s) : s[k] = "." /\ \A j \in 1..(k - 1) : s[j] # "."
         IN <<SubSeq(s, 1, i - 1)>> \o SplitDots(SubSeq(s, i + 1, Len(s)))

IsNumericId(p) ==
    /\ p # <<>>
    /\ \A i \in 1..Len(p) : p[i] \in Digits
    /\ (Len(p) = 1 \/ p[1] # "0")

\* semver.valid(v) !== null
semverValid(v) ==
    /\ v # UNDEFINED
    /\ LET parts == SplitDots(v)
       IN Len(parts) = 3 /\ \A i \in 1..3 : IsNumericId(parts[i])

VersionOf(v) == LET parts == SplitDots(v) IN <<NumOf(parts[1]), NumOf(parts[2]), NumOf(parts[3])>>

VersionGte(a, b) ==
    \/ a[1] > b[1]
    \/ a[1] = b[1] /\ a[2] > b[2]
    \/ a[1] = b[1] /\ a[2] = b[2] /\ a[3] >= b[3]

NullRange == [op |-> "null"]

\* the comparator a range string parses to, NullRange when it is no range
ParseRange(s) ==
    IF s \in {<<>>, <<"*">>, <<"x">>} THEN [op |-> "any"]
    ELSE IF IsNumericId(s) THEN [op |-> "major", major |-> NumOf(s)]
    ELSE IF semverValid(s) THEN [op |-> "=", version |-> VersionOf(s)]
    ELSE IF StartsWith(s, <<">", "=">>) /\ semverValid(SubSeq(s, 3, Len(s)))
         THEN [op |-> ">=", version |-> VersionOf(SubSeq(s, 3, Len(s)))]
    ELSE NullRange

\* semver.validRange(value) !== null
semverValidRange(s) == ParseRange(s) # NullRange

\* semver.coerce(value) !== null of a number: String(value) holds a digit
semverCoerces(n) == \E i \in 1..Len(NumberToString(n)) : NumberToString(n)[i] \in Digits

\* semver.satisfies(version, range)
semverSatisfies(v, range) ==
    LET r == ParseRange(range)
    IN /\ semverValid(v)
       /\ CASE r.op = "any" -> TRUE
            [] r.op = "major" -> VersionOf(v)[1] = r.major
            [] r.op = "=" -> VersionOf(v) = r.version
            [] r.op = ">=" -> VersionGte(VersionOf(v), r.version)
            [] OTHER -> FALSE

----------------------------------------------------------------------------
(* The regular expressions executeLikeOperation builds: an optional ".*",  *)
(* one group, an optional ".*", between ^ and $. Inside the group the      *)
(* search text is regular-expression source: "|" separates alternatives,   *)
(* and a backslash makes the next character literal.                       *)

\* value.replace(/%/g, '')
RECURSIVE StripPercent(_)
StripPercent(s) ==
    IF s = <<>> THEN <<>>
    ELSE (IF s[1] = "%" THEN <<>> ELSE <<s[1]>>) \o StripPercent(Tail(s))

\* .replace(/\./g, '\\.')
RECURSIVE EscapeDots(_)
EscapeDots(s) ==
    IF s = <<>> THEN <<>>
    ELSE (IF s[1] = "." THEN <<"\\", ".">> ELSE <<s[1]>>) \o EscapeDots(Tail(s))

\* the alternatives of a group's source, each as the literal text it matches
RECURSIVE Alternatives(_, _)
Alternatives(src, cur) ==
    IF src = <<>> THEN {cur}
    ELSE IF src[1] = "\\" /\ Len(src) >= 2 THEN Alternatives(SubSeq(src, 3, Len(src)), cur \o <<src[2]>>)
    ELSE IF src[1] = "|" THEN {cur} \cup Alternatives(Tail(src), <<>>)
    ELSE Alternatives(Tail(src), cur \o <<src[1]>>)

NoRegExp == [defined |-> FALSE]

\* new RegExp(`^.*(${search}).*$`), `^.*(${search})$`, `^(${search}).*$`
RegExp(anyBefore, search, anyAfter) ==
    [defined |-> TRUE, anyBefore |-> anyBefore, alts |-> Alternatives(search, <<>>),
     anyAfter |-> anyAfter]

\* reg.test(text)
RegExpTest(reg, text) ==
    \E alt \in reg.alts :
        CASE reg.anyBefore /\ reg.anyAfter -> Contains(text, alt)
          [] reg.anyBefore /\ ~reg.anyAfter -> EndsWith(text, alt)
          [] ~reg.anyBefore /\ reg.anyAfter -> StartsWith(text, alt)
          [] OTHER -> text = alt

----------------------------------------------------------------------------
(* Nodes of the WHERE tree, as the code reads them *)

ColumnRef(name) == [type |-> "column_ref", column |-> name]

\* a literal operand; type is what typeof right.value gives
StringValue(s) == [type |-> "string", value |-> s]

NumberValue(n) == [type |-> "number", value |-> n]

BooleanValue(b) == [type |-> "boolean", value |-> b]

BinaryExpr(operator, left, right) ==
    [type |-> "binary_expr", operator |-> operator, left |-> left, right |-> right]

\* a function call has a name and arguments, and no operator, left or right
FunctionExpr(name, a, b) ==
    [type |-> "function", name |-> name, args |-> [type |-> "expr_list", value |-> <<a, b>>]]

\* the WHERE of a query without one: no operator, and not a function
NoWhere == [type |-> "none"]

UndefinedNode == [type |-> "undefined"]

\* node.operator, node.left, node.right: undefined when the node has no such field
OperatorOf(node) == IF "operator" \in DOMAIN node THEN node.operator ELSE "undefined"

LeftOf(node) == IF "left" \in DOMAIN node THEN node.left ELSE UndefinedNode

RightOf(node) == IF "right" \in DOMAIN node THEN node.right ELSE UndefinedNode

----------------------------------------------------------------------------
(* The operations *)

SQLOperations == {"none", "=", "LIKE", "AND", "OR", "SEMVER"}

\* getOperation: the operation of that name, or the process exits
getOperation(operator) ==
    IF operator \in SQLOperations
    THEN [found |-> TRUE, name |-> operator]
    ELSE [found |-> FALSE, name |-> operator]

executeNoneOperation(data, hdr) == Row(data)

executeSemverOperation(data, hdr, left, right) ==
    LET columnName == left.column
        value == right.value
        column == FindIndex(hdr, columnName)
    IN IF ~semverValid(FieldAt(data, column)) THEN Absent
       ELSE IF \/ (right.type = "string" /\ ~semverValidRange(value))
               \/ (right.type = "number" /\ ~semverCoerces(value))
            THEN ThrowInvalidVersion(right)
       ELSE IF semverSatisfies(FieldAt(data, column),
                               IF right.type = "number" THEN NumberToString(value) ELSE value)
            THEN Row(data)
       ELSE Absent

executeEqualOperation(data, hdr, left, right) ==
    LET columnName == left.column
        value == right.value
        column == FindIndex(hdr, columnName)
        field == FieldAt(data, column)
        equal == CASE right.type = "number" ->
                        ~ParseInt(field).nan /\ ParseInt(field).n = value
                   [] right.type = "boolean" ->
                        (field = <<"t", "r", "u", "e">>) = value
                   [] OTHER -> field = value
    IN IF ~equal THEN Absent ELSE Row(data)

executeLikeOperation(data, hdr, left, right) ==
    LET columnName == left.column
        value == right.value
        column == FindIndex(hdr, columnName)
        anyBegin == StartsWith(value, <<"%">>)
        anyEnd == EndsWith(value, <<"%">>)
        middleWith == anyBegin /\ anyEnd
        search == EscapeDots(StripPercent(value))
        reg == IF middleWith THEN RegExp(TRUE, search, TRUE)
               ELSE IF anyBegin THEN RegExp(TRUE, search, FALSE)
               ELSE IF anyEnd THEN RegExp(FALSE, search, TRUE)
               ELSE NoRegExp
    IN IF reg.defined /\ RegExpTest(reg, ToStringJS(FieldAt(data, column)))
       THEN Row(data)
       ELSE Absent

\* getOperation(operator)(data, header, left, right)
RECURSIVE Apply(_, _, _, _, _)

executeAndOperation(data, hdr, left, right) ==
    LET resultL == Apply(OperatorOf(left), data, hdr, LeftOf(left), RightOf(left))
    IN IF resultL.kind = "undefined" THEN Absent
       ELSE IF resultL.kind # "row" THEN resultL
       ELSE Apply(OperatorOf(right), resultL.row, hdr, LeftOf(right), RightOf(right))

executeOrOperation(data, hdr, left, right) ==
    LET resultA == Apply(OperatorOf(left), data, hdr, LeftOf(left), RightOf(left))
    IN IF resultA.kind # "undefined" THEN resultA
       ELSE Apply(OperatorOf(right), data, hdr, LeftOf(right), RightOf(right))

Apply(operator, data, hdr, left, right) ==
    IF ~getOperation(operator).found THEN Exit(operator)
    ELSE CASE operator = "none" -> executeNoneOperation(data, hdr)
           [] operator = "=" -> executeEqualOperation(data, hdr, left, right)
           [] operator = "LIKE" -> executeLikeOperation(data, hdr, left, right)
           [] operator = "AND" -> executeAndOperation(data, hdr, left, right)
           [] operator = "OR" -> executeOrOperation(data, hdr, left, right)
           [] operator = "SEMVER" -> executeSemverOperation(data, hdr, left, right)

\* lines 39-49: the operation, left and right of the top of the WHERE tree
Dispatch(where) ==
    IF OperatorOf(where) # "undefined"
    THEN [operator |-> where.operator, left |-> where.left, right |-> where.right]
    ELSE IF where.type = "function"
    THEN [operator |-> where.name, left |-> where.args.value[1], right |-> where.args.value[2]]
    ELSE [operator |-> "none", left |-> UndefinedNode, right |-> UndefinedNode]

----------------------------------------------------------------------------
(* Column selection and projection *)

\* column.as of a selection without alias
Null == <<"null">>

Truthy(v) == v # Null /\ v # <<>>

\* a selected plain column, and a selected function call over one argument
SelectColumn(name, as) == [expr |-> [type |-> "column_ref", column |-> name], as |-> as]

SelectFunction(name, arg, as) ==
    [expr |-> [type |-> "function", name |-> name, args |-> [expr |-> [value |-> arg]]],
     as |-> as]

getColumnName(column) ==
    IF "name" \in DOMAIN column.expr
    THEN column.expr.name \o <<"(">> \o column.expr.args.expr.value \o <<")">>
    ELSE column.expr.column

\* names.reduce((value, name, index) => ({...value, [name]: index}), {})
RECURSIVE ReduceIndex(_, _, _)
ReduceIndex(names, i, value) ==
    IF i > Len(names) THEN value
    ELSE ReduceIndex(names, i + 1, (names[i] :> (i - 1)) @@ value)

\* columns.reduce((value, column) => ({...value, [key]: column.as || key}), {})
RECURSIVE ReduceName(_, _, _)
ReduceName(columns, i, value) ==
    IF i > Len(columns) THEN value
    ELSE LET key == getColumnName(columns[i])
         IN ReduceName(columns, i + 1,
                (key :> (IF Truthy(columns[i].as) THEN columns[i].as ELSE key)) @@ value)

\* header.reduce((value, column) => ({...value, [column]: column}), {})
RECURSIVE ReduceSelf(_, _, _)
ReduceSelf(names, i, value) ==
    IF i > Len(names) THEN value
    ELSE ReduceSelf(names, i + 1, (names[i] :> names[i]) @@ value)

\* {}
EmptyObject == <<>>

ColumnNames(columns) == [i \in 1..Len(columns) |-> getColumnName(columns[i])]

\* a position of a JS array that was never assigned
EMPTY == <<"empty">>

\* value[position] = column on a JS array (position is 0-based)
SetAt(value, position, column) ==
    [i \in 1..(IF position + 1 > Len(value) THEN position + 1 ELSE Len(value)) |->
        IF i = position + 1 THEN column
        ELSE IF i <= Len(value) THEN value[i]
        ELSE EMPTY]

\* lines 110-118: row.reduce((value, column, index) => ..., [])
RECURSIVE ProjectFrom(_, _, _, _, _)
ProjectFrom(row, index, value, origHeader, hdrIndex) ==
    IF index > Len(row) THEN value
    ELSE LET key == FieldAt(origHeader, index)
         IN ProjectFrom(row, index + 1,
                IF key \in DOMAIN hdrIndex THEN SetAt(value, hdrIndex[key], row[index]) ELSE value,
                origHeader, hdrIndex)

ProjectRow(row, origHeader, hdrIndex) == ProjectFrom(row, 1, <<>>, origHeader, hdrIndex)

----------------------------------------------------------------------------
(* Pagination *)

DefaultLimit == 10

MaxInt32 == 2147483647

\* x | 0 of a non-negative integer below 2^32
ToInt32(x) == IF x <= MaxInt32 THEN x ELSE ((x - MaxInt32) - 1) - MaxInt32 - 1

\* line 99 without its first test: the page is bounded by total > end alone
DiscardsPastEndOnly(resultLength, totalSoFar, start, end, limit) ==
    \/ (start # 0 /\ totalSoFar < start)
    \/ totalSoFar > end

\* line 99: the accepted row is counted and not kept
Discards(resultLength, totalSoFar, start, end, limit) ==
    \/ resultLength = limit
    \/ (start # 0 /\ totalSoFar < start)
    \/ totalSoFar > end

\* total++ on the kept path only
CountKeptOnly(totalSoFar, discarded) == IF discarded THEN totalSoFar ELSE totalSoFar + 1

\* lines 100 and 104: total++ on both paths of an accepted row
CountAccepted(totalSoFar, discarded) == totalSoFar + 1

\* a check that catches only rows longer than the header
ShapeLongerOnly(origHeader, row) == Len(row) > Len(origHeader)

\* line 92: originalHeader.length !== row.length
ShapeMismatch(origHeader, row) == Len(origHeader) # Len(row)

\* lines 121-122 and 128. total / 0 is Infinity or NaN: not an integer, and 0 under | 0
Pages(totalCount, limit) ==
    LET pages == IF limit = 0 THEN 0 + 1
                 ELSE IF totalCount % limit = 0 THEN totalCount \div limit
                 ELSE ToInt32(totalCount \div limit) + 1
    IN IF pages >= 1 THEN pages ELSE 1

----------------------------------------------------------------------------
(* The inputs of the model *)

cName == <<"n", "a", "m", "e">>
cVersion == <<"v", "e", "r", "s", "i", "o", "n">>

V100 == <<"1", ".", "0", ".", "0">>
V200 == <<"2", ".", "0", ".", "0">>

Headers == {<<cName, cVersion>>, <<cName, cName>>}

\* the rows a file is made of; the last one is one field short
DataRows == {<<<<"a">>, V100>>, <<<<"a">>, V200>>, <<<<"b">>, <<"x">>>>, <<<<"a">>>>}

RECURSIVE SeqsUpTo(_, _)
SeqsUpTo(S, n) ==
    IF n = 0 THEN {<<>>}
    ELSE LET shorter == SeqsUpTo(S, n - 1)
         IN shorter \cup {Append(q, x) : q \in {r \in shorter : Len(r) = n - 1}, x \in S}

Files == {<<>>} \cup {<<h>> \o rows : h \in Headers, rows \in SeqsUpTo(DataRows, MaxRows)}

EqNameA == BinaryExpr("=", ColumnRef(cName), StringValue(<<"a">>))

SemverGte2 == FunctionExpr("SEMVER", ColumnRef(cVersion), StringValue(<<">", "=">> \o V200))

\* "not-a-range" is no semver range
NotARange == <<"n", "o", "t", "-", "a", "-", "r", "a", "n", "g", "e">>

SemverBad == FunctionExpr("SEMVER", ColumnRef(cVersion), StringValue(NotARange))

\* a comparison the engine has no operation for
GtVersion == BinaryExpr(">", ColumnRef(cVersion), NumberValue(1))

Wheres ==
    {NoWhere, EqNameA, SemverGte2, SemverBad, GtVersion,
     BinaryExpr("AND", EqNameA, GtVersion), BinaryExpr("OR", EqNameA, GtVersion)}

ColumnLists ==
    {<<SelectColumn(cName, Null)>>,
     <<SelectColumn(cVersion, Null), SelectColumn(cName, <<"n">>)>>,
     <<SelectColumn(cName, <<"x">>), SelectColumn(cName, <<"y">>)>>,
     <<SelectColumn(cName, Null), SelectColumn(cName, Null)>>,
     <<SelectColumn(cVersion, <<"v">>), SelectFunction(<<"f">>, cName, Null)>>,
     <<SelectFunction(<<"f">>, cName, <<"g">>), SelectColumn(cName, Null)>>}

\* query.columns of SELECT *, and of a selection list
Star == [array |-> FALSE, list |-> <<>>]

Selection(list) == [array |-> TRUE, list |-> list]

Queries ==
    {[type |-> "select", table |-> "t", columns |-> Star, where |-> w,
      offset |-> o, limit |-> l] : w \in Wheres, o \in 0..MaxOffset, l \in 0..MaxLimit}
    \cup
    {[type |-> "select", table |-> "t", columns |-> Selection(c), where |-> NoWhere,
      offset |-> 0, limit |-> DefaultLimit] : c \in ColumnLists}
    \cup
    {[type |-> "delete", table |-> "t", columns |-> Star, where |-> NoWhere,
      offset |-> 0, limit |-> DefaultLimit]}

----------------------------------------------------------------------------
(* executeQuery *)

NoOutcome == [kind |-> "none"]

NoProbe == [kind |-> "none"]

Init ==
    /\ query \in Queries
    /\ file \in Files
    /\ pc = "start"
    /\ operation = Dispatch(NoWhere)
    /\ line = 0
    /\ total = 0
    /\ result = <<>>
    /\ shouldSetupHeader = TRUE
    /\ header = <<>>
    /\ originalHeader = <<>>
    /\ headerIndex = EmptyObject
    /\ headerName = EmptyObject
    /\ outcome = NoOutcome
    /\ probe = NoProbe
    /\ ret = Absent

\* lines 19-58: the query type, the page window, the operation of the WHERE tree
Begin ==
    /\ pc = "start"
    /\ IF query.type # "select"
       THEN /\ pc' = "exited"
            /\ outcome' = [kind |-> "exit", error |-> "Query type not supported",
                           operator |-> query.type]
            /\ UNCHANGED operation
       ELSE LET chosen == Dispatch(query.where)
            IN IF getOperation(chosen.operator).found
               THEN /\ pc' = "reading"
                    /\ operation' = chosen
                    /\ UNCHANGED outcome
               ELSE /\ pc' = "exited"
                    /\ outcome' = Exit(chosen.operator)
                    /\ UNCHANGED operation
    /\ UNCHANGED <<query, file, line, total, result, shouldSetupHeader, header,
                   originalHeader, headerIndex, headerName, probe, ret>>

\* lines 63-90: the first row is the header
SetupHeader(row) ==
    /\ originalHeader' = row
    /\ IF query.columns.array
       THEN /\ header' = ColumnNames(query.columns.list)
            /\ headerIndex' = ReduceIndex(ColumnNames(query.columns.list), 1, EmptyObject)
            /\ headerName' = ReduceName(query.columns.list, 1, EmptyObject)
       ELSE /\ header' = row
            /\ headerIndex' = ReduceIndex(row, 1, EmptyObject)
            /\ headerName' = ReduceSelf(row, 1, EmptyObject)
    /\ shouldSetupHeader' = FALSE
    /\ UNCHANGED <<pc, total, result, outcome>>

\* lines 92-106: a data row
DataRow(row) ==
    IF ShapeMismatch(originalHeader, row)
    THEN /\ pc' = "thrown"
         /\ outcome' = ThrowRowShape(line + 1)
         /\ UNCHANGED <<total, result>>
    ELSE LET data == Apply(operation.operator, row, originalHeader,
                           operation.left, operation.right)
             start == query.offset * query.limit
             end == start + query.limit
             discarded == Discards(Len(result), total, start, end, query.limit)
         IN CASE data.kind = "row" ->
                    /\ total' = CountAccepted(total, discarded)
                    /\ result' = IF discarded THEN result ELSE Append(result, data.row)
                    /\ UNCHANGED <<pc, outcome>>
              [] data.kind = "undefined" ->
                    UNCHANGED <<pc, outcome, total, result>>
              [] data.kind = "throw" ->
                    /\ pc' = "thrown"
                    /\ outcome' = data
                    /\ UNCHANGED <<total, result>>
              [] data.kind = "exit" ->
                    /\ pc' = "exited"
                    /\ outcome' = data
                    /\ UNCHANGED <<total, result>>

\* lines 60-107: one turn of the loop over readCSV(filePath)
Iterate ==
    /\ pc = "reading"
    /\ line < Len(file)
    /\ line' = line + 1
    /\ IF shouldSetupHeader
       THEN SetupHeader(file[line + 1])
       ELSE /\ DataRow(file[line + 1])
            /\ UNCHANGED <<shouldSetupHeader, header, originalHeader, headerIndex, headerName>>
    /\ UNCHANGED <<query, file, operation, probe, ret>>

\* lines 109-131: the stream is exhausted; projection, pages, the envelope
Finish ==
    /\ pc = "reading"
    /\ line = Len(file)
    /\ result' = [i \in 1..Len(result) |-> ProjectRow(result[i], originalHeader, headerIndex)]
    /\ outcome' = [kind |-> "envelope",
                   source |-> query.table \o ".csv",
                   total |-> total,
                   page |-> query.offset + 1,
                   pages |-> Pages(total, query.limit),
                   header |-> [i \in 1..Len(header) |-> headerName[header[i]]],
                   result |-> result']
    /\ pc' = "done"
    /\ UNCHANGED <<query, file, operation, line, total, shouldSetupHeader, header,
                   originalHeader, headerIndex, headerName, probe, ret>>

Next == Begin \/ Iterate \/ Finish

Spec == Init /\ [][Next]_vars

----------------------------------------------------------------------------
(* Direct calls of executeAndOperation and executeOrOperation on one row *)

ProbeHeader == <<cName, cVersion>>

ProbeRows ==
    {<<<<"a">>, V100>>, <<<<"a">>, V200>>, <<<<"b">>, V200>>, <<<<"b">>, <<"x">>>>}

LikeVersion2 == BinaryExpr("LIKE", ColumnRef(cVersion), StringValue(<<"2", "%">>))

SubNodes ==
    {EqNameA, LikeVersion2, SemverGte2,
     BinaryExpr("AND", EqNameA, LikeVersion2), BinaryExpr("OR", EqNameA, LikeVersion2)}

NoQuery == [type |-> "none"]

\* the variables of executeQuery, which a direct call of an operation leaves alone
QueryIdle ==
    /\ query = NoQuery
    /\ file = <<>>
    /\ operation = Dispatch(NoWhere)
    /\ line = 0
    /\ total = 0
    /\ result = <<>>
    /\ shouldSetupHeader = TRUE
    /\ header = <<>>
    /\ originalHeader = <<>>
    /\ headerIndex = EmptyObject
    /\ headerName = EmptyObject
    /\ outcome = NoOutcome

queryVars == <<query, file, operation, line, total, result, shouldSetupHeader,
               header, originalHeader, headerIndex, headerName, outcome>>

InitPredicate ==
    /\ QueryIdle
    /\ pc = "call"
    /\ probe \in [data : ProbeRows, p1 : SubNodes, p2 : SubNodes]
    /\ ret = Absent

CallAnd ==
    /\ pc = "call"
    /\ "p1" \in DOMAIN probe
    /\ ret' = executeAndOperation(probe.data, ProbeHeader, probe.p1, probe.p2)
    /\ pc' = "AND"
    /\ UNCHANGED <<queryVars, probe>>

CallOr ==
    /\ pc = "call"
    /\ "p1" \in DOMAIN probe
    /\ ret' = executeOrOperation(probe.data, ProbeHeader, probe.p1, probe.p2)
    /\ pc' = "OR"
    /\ UNCHANGED <<queryVars, probe>>

NextPredicate == CallAnd \/ CallOr

SpecPredicate == InitPredicate /\ [][NextPredicate]_vars

\* the sub-predicate evaluated on its own, as the WHERE of a query (lines 39-49, 96)
Alone(node) ==
    LET chosen == Dispatch(node)
    IN Apply(chosen.operator, probe.data, ProbeHeader, chosen.left, chosen.right)

----------------------------------------------------------------------------
(* Direct calls of executeLikeOperation on one field *)

PatternChars == {"a", ".", "|", "%"}

FieldChars == {"a", "b", ".", "|"}

InitLike ==
    /\ QueryIdle
    /\ pc = "call"
    /\ probe \in [pattern : SeqsUpTo(PatternChars, MaxPattern),
                  field : SeqsUpTo(FieldChars, MaxField)]
    /\ ret = Absent

CallLike ==
    /\ pc = "call"
    /\ "pattern" \in DOMAIN probe
    /\ ret' = executeLikeOperation(<<probe.field>>, <<cName>>, ColumnRef(cName),
                                   StringValue(probe.pattern))
    /\ pc' = "LIKE"
    /\ UNCHANGED <<queryVars, probe>>

NextLike == CallLike

SpecLike == InitLike /\ [][NextLike]_vars

----------------------------------------------------------------------------
(* What the claims speak of *)

Terminal == pc \in {"done", "thrown", "exited"}

\* the data rows the walk has read so far, and all data rows of the file
RowsRead == SubSeq(file, 2, line)

AllDataRows == SubSeq(file, 2, Len(file))

\* the rows of a sequence that the query's predicate accepts, in order
AcceptedOf(rows) ==
    LET Accepts(row) ==
            Apply(operation.operator, row, file[1], operation.left, operation.right).kind = "row"
    IN SelectSeq(rows, Accepts)

\* the elements of s whose zero-based rank lies in [start, start + count)
Window(s, start, count) ==
    SubSeq(s, start + 1, IF start + count < Len(s) THEN start + count ELSE Len(s))

\* the lines (header = line 1) of the data rows whose field count is not the header's
BadLines == {n \in 2..Len(file) : Len(file[n]) # Len(file[1])}

FirstBadLine == CHOOSE n \in BadLines : \A m \in BadLines : n <= m

RowShapeError(n) ==
    [kind |-> "throw", error |-> "The number of header columns are different to row columns",
     line |-> n]

----------------------------------------------------------------------------
(* C1: the rows kept for the page, before projection, are exactly the      *)
(* accepted data rows of zero-based rank in [offset*limit, offset*limit +   *)
(* limit) among all accepted rows, in stream order. Stated at every point   *)
(* of the walk, each of which is where the stream may end.                  *)
C1_PageIsWindow ==
    (pc = "reading" /\ ~shouldSetupHeader) =>
        result = Window(AcceptedOf(RowsRead), query.offset * query.limit, query.limit)

\* the second page of two rows: two accepted rows before it, a rejected row among them
C1_Witness ==
    /\ pc = "reading"
    /\ line = Len(file)
    /\ query.where = EqNameA
    /\ query.offset = 1
    /\ query.limit = 2
    /\ total = 3
    /\ Len(file) = 5
    /\ result = <<file[5]>>
    /\ file[5] # file[2]

(* C2: at every step of the walk total is the number of data rows read so   *)
(* far that the predicate accepted, and a completed query returns the number *)
(* of accepted rows of the whole file, whatever limit and offset are.        *)
C2_TotalCountsAccepted ==
    /\ (pc = "reading" /\ ~shouldSetupHeader) => total = Len(AcceptedOf(RowsRead))
    /\ pc = "done" => outcome.total = Len(AcceptedOf(AllDataRows))

\* the page filled before the end of the file, and a row was rejected
C2_Witness ==
    /\ pc = "done"
    /\ query.limit = 1
    /\ outcome.total = 2
    /\ Len(outcome.result) = 1
    /\ Len(file) = 4

(* C3: the returned pages is max(1, ceil(total / limit)), that is the least *)
(* p >= 1 with p * limit >= total, for every total and limit, and the       *)
(* returned page is offset + 1.                                             *)
C3_PagesIsCeiling ==
    pc = "done" =>
        /\ outcome.pages >= 1
        /\ outcome.pages * query.limit >= outcome.total
        /\ (outcome.pages = 1 \/ (outcome.pages - 1) * query.limit < outcome.total)
        /\ outcome.page = query.offset + 1

\* the file has a header, and no two columns of it share a name
DistinctHeader ==
    /\ Len(file) >= 1
    /\ \A i, j \in 1..Len(file[1]) : file[1][i] = file[1][j] => i = j

(* C6: with a selection list and a header of distinct names read, the       *)
(* returned header has                                                      *)
(* one name per selected column in selection order, the alias of the i-th   *)
(* selected column if it has one, else its derived name; with no selection   *)
(* list it is the source header.                                            *)
C6_HeaderIsSelection ==
    (pc = "done" /\ DistinctHeader) =>
        IF query.columns.array
        THEN outcome.header =
                [i \in 1..Len(query.columns.list) |->
                    IF Truthy(query.columns.list[i].as)
                    THEN query.columns.list[i].as
                    ELSE getColumnName(query.columns.list[i])]
        ELSE outcome.header = file[1]

(* C7, as stated: a file holding a data row whose field count is not the    *)
(* header's makes the query (when the operator lookup does not end the       *)
(* process) fail with the error that reports the line of such a row, and no  *)
(* envelope is returned.                                                     *)
C7_BadRowAlwaysReported ==
    (Terminal /\ pc # "exited" /\ BadLines # {}) =>
        /\ pc = "thrown"
        /\ \E n \in BadLines : outcome = RowShapeError(n)

(* C7, amended: a file holding such a row never yields an envelope; the     *)
(* walk throws the error reporting the line of the first such row, header    *)
(* being line 1, unless the query was aborted before that line by the        *)
(* operator lookup or by a predicate error; a row-shape error always names   *)
(* the line of the first such row.                                           *)
C7_FirstBadRowReported ==
    /\ (Terminal /\ BadLines # {}) =>
            \/ (pc = "thrown" /\ outcome = RowShapeError(FirstBadLine) /\ line = FirstBadLine)
            \/ (pc \in {"thrown", "exited"} /\ line < FirstBadLine
                    /\ outcome.error \in {"Invalid version or range", "Operation not supported",
                                          "Query type not supported"})
    /\ (pc = "thrown" /\ outcome.error = RowShapeError(0).error) =>
            (BadLines # {} /\ outcome.line = FirstBadLine)

\* the page is already full when the short row, on line 4, is read
C7_Witness ==
    /\ pc = "thrown"
    /\ query.where = EqNameA
    /\ query.limit = 1
    /\ query.offset = 0
    /\ Len(result) = 1
    /\ total = 2
    /\ line = 4
    /\ outcome = RowShapeError(4)

\* the operand of a VERSION_MATCH at the top of the tree is no range, or no version
InvalidVersionOperand(where) ==
    /\ where.type = "function"
    /\ where.name = "SEMVER"
    /\ \/ (where.args.value[2].type = "string" /\ ~semverValidRange(where.args.value[2].value))
       \/ (where.args.value[2].type = "number" /\ ~semverCoerces(where.args.value[2].value))

(* C8: a query whose VERSION_MATCH operand is not a valid range always      *)
(* aborts with the invalid-operand error, whatever the file with a header    *)
(* holds, and never completes with an envelope.                              *)
C8_InvalidOperandAborts ==
    (InvalidVersionOperand(query.where) /\ Len(file) >= 1) => pc # "done"

\* the tree holds, at some depth, an operator outside the known set
RECURSIVE ReferencesUnknown(_)
ReferencesUnknown(node) ==
    CASE node.type = "binary_expr" ->
            \/ node.operator \notin SQLOperations
            \/ /\ node.operator \in {"AND", "OR"}
               /\ (ReferencesUnknown(node.left) \/ ReferencesUnknown(node.right))
      [] node.type = "function" -> node.name \notin SQLOperations
      [] OTHER -> FALSE

(* C9: a WHERE tree that references, at any depth, an operator outside the  *)
(* known set never returns an envelope, whatever the file with a header      *)
(* holds.                                                                    *)
C9_UnknownOperatorHalts ==
    (ReferencesUnknown(query.where) /\ Len(file) >= 1) => pc # "done"

(* C10: over a file whose header names are distinct,                        *)
(* every returned row has as many positions as the returned header has *)
(* names; the position of each selected plain column holds the source row's  *)
(* field under that column; with no selection list the returned row is its   *)
(* source row.                                                               *)
C10_RowsFollowSelection ==
    (pc = "done" /\ DistinctHeader) =>
        LET kept == Window(AcceptedOf(AllDataRows), query.offset * query.limit, query.limit)
        IN \A k \in 1..Len(outcome.result) :
              IF query.columns.array
              THEN /\ Len(outcome.result[k]) = Len(outcome.header)
                   /\ \A i \in 1..Len(query.columns.list) :
                        LET column == query.columns.list[i]
                        IN ("name" \notin DOMAIN column.expr
                                /\ FindIndex(file[1], column.expr.column) # 0) =>
                            /\ i <= Len(outcome.result[k])
                            /\ outcome.result[k][i] =
                                    kept[k][FindIndex(file[1], column.expr.column)]
              ELSE outcome.result[k] = kept[k]

(* C4: AND(p1, p2) accepts the row iff p1 and p2 each accept it when        *)
(* evaluated on their own, OR(p1, p2) accepts it iff at least one of them    *)
(* does, and an accepted row is the input row, for sub-predicates that are   *)
(* comparison nodes (EQUALS, LIKE, VERSION_MATCH) or combinator nodes.       *)
C4_AndOrCompose ==
    /\ pc = "AND" =>
        /\ ret.kind = "row" <=> (Alone(probe.p1).kind = "row" /\ Alone(probe.p2).kind = "row")
        /\ ret.kind = "row" => ret.row = probe.data
    /\ pc = "OR" =>
        /\ ret.kind = "row" <=> (Alone(probe.p1).kind = "row" \/ Alone(probe.p2).kind = "row")
        /\ ret.kind = "row" => ret.row = probe.data

\* the pattern without its leading and trailing % markers
PatternBody(pattern) ==
    LET from == IF StartsWith(pattern, <<"%">>) THEN 2 ELSE 1
        to == IF EndsWith(pattern, <<"%">>) THEN Len(pattern) - 1 ELSE Len(pattern)
    IN SubSeq(pattern, from, to)

(* C5: for a pattern body s free of %, LIKE accepts the field f under %s%   *)
(* iff f contains s, under s% iff f starts with s, under %s iff f ends with  *)
(* s, and under a pattern with no leading and no trailing % never.           *)
C5_LikeIsSubstringSearch ==
    (pc = "LIKE" /\ \A i \in 1..Len(PatternBody(probe.pattern)) :
                        PatternBody(probe.pattern)[i] # "%") =>
        LET s == PatternBody(probe.pattern)
            f == probe.field
            leading == StartsWith(probe.pattern, <<"%">>)
            trailing == EndsWith(probe.pattern, <<"%">>)
        IN ret.kind = "row" <=>
              CASE leading /\ trailing -> Contains(f, s)
                [] ~leading /\ trailing -> StartsWith(f, s)
                [] leading /\ ~trailing -> EndsWith(f, s)
                [] OTHER -> FALSE

====
